---- MODULE Spec2Model ----
(***************************************************************************)
(* Model of the ensjs name-operation encoders:                             *)
(*   transferName  (packages/ensjs/src/functions/wallet/transferName.ts)   *)
(*   deleteSubname (src/unnamed/part_000)                                  *)
(*   registerName  (second half of functions/read/getAddr.test.ts)         *)
(*                                                                         *)
(* A name is kept as the sequence of labels that name.split('.') yields:   *)
(* the string with k separators is the sequence of k+1 labels, and the     *)
(* empty string is the one-label sequence <<"">>.  Hashes are symbolic     *)
(* terms (keccak is taken to be collision free), so that two hashes are    *)
(* equal exactly when they were derived the same way.                      *)
(***************************************************************************)
EXTENDS Naturals, Sequences, FiniteSets, TLC

VARIABLES pc, req, data, sent

vars == <<pc, req, data, sent>>

(***************************************************************************)
(* Bounds of the model.                                                    *)
(***************************************************************************)
\* longest name, in labels
MaxLabels == 3

\* The labels names are built from.  "" is the empty label; "l255" and
\* "l256" stand for labels of 255 and 256 bytes.
LabelSet == {"", "eth", "com", "sub", "l255", "l256"}

\* label -> its length in bytes (stringToBytes(label).byteLength)
byteLength(label) ==
  CASE label = ""     -> 0
    [] label = "l255" -> 255
    [] label = "l256" -> 256
    [] OTHER          -> 3

NameSet == UNION {[1..n -> LabelSet] : n \in 1..MaxLabels}

\* the empty string, as split('.') returns it
EmptyName == <<"">>

\* contract keywords a caller may pass; "resolver" is none of the variants
ContractSet == {"registry", "nameWrapper", "registrar", "resolver"}

\* an optional boolean parameter: {} is undefined
OptBool == {{}, {TRUE}, {FALSE}}

\* JavaScript truthiness of an optional boolean
Truthy(flag) == TRUE \in flag

AddressSet == {"0xOwnerA", "0xOwnerB"}

WalletAccount == "0xWallet"

\* the per-call account override of the write parameters: {} is undefined
AccountOverrideSet == {{}, {"0xOverride"}}

ValueSet == {0, 7}

(***************************************************************************)
(* Values that appear in call data.                                        *)
(***************************************************************************)
\* errors/general: a thrown error
Throw(name, details) == [kind |-> "error", error |-> name, details |-> details]

\* viem labelhash(label) = keccak256(stringToBytes(label))
labelhash(label) == [labelhash |-> label]

\* namehash of the root: 32 zero bytes
ZeroHash == [node |-> <<>>]

\* keccak256(concat([node, labelSha]))
keccakPair(node, labelSha) == [node |-> <<node, labelSha>>]

\* utils/normalise namehash: folds the labels from the last to the first
RECURSIVE namehashLabels(_)
namehashLabels(labels) ==
  IF labels = <<>> THEN ZeroHash
  ELSE keccakPair(namehashLabels(Tail(labels)), labelhash(Head(labels)))

namehash(name) == IF name = EmptyName THEN ZeroHash ELSE namehashLabels(name)

\* BigInt(hex): the unsigned integer a 32-byte hex string denotes
BigInt(hex) == [uint |-> hex]

\* a literal integer argument (0, BigInt(0), BigInt(1))
Uint(n) == [uint |-> [int |-> n]]

\* a raw string argument
Str(label) == [string |-> label]

Addr(a) == [address |-> a]

\* utils/consts EMPTY_ADDRESS
EMPTY_ADDRESS == Addr("0x0000000000000000000000000000000000000000")

\* contracts/getChainContractAddress
getChainContractAddress(contract) == Addr(contract)

\* viem encodeFunctionData: selector of functionName in abi, then the arguments
encodeFunctionData(abi, functionName, args) ==
  [abi |-> abi, functionName |-> functionName, args |-> args]

Payload(to, callData) == [kind |-> "payload", to |-> to, data |-> callData]

PayloadWithValue(to, callData, value) ==
  [kind |-> "payload", to |-> to, data |-> callData, value |-> value]

(***************************************************************************)
(* NameClassifier and IdentifierDeriver.                                   *)
(***************************************************************************)
\* a name with no label or with an empty label
Malformed(name) == \E i \in 1..Len(name) : name[i] = ""

\* utils/getNameType; "MalformedNameError" stands for the thrown error
getNameType(name) ==
  LET labels == name
      isDotEth == labels[Len(labels)] = "eth"
  IN IF Malformed(name) THEN "MalformedNameError"
     ELSE IF Len(labels) = 1 THEN (IF isDotEth THEN "eth-tld" ELSE "unsupported")
     ELSE IF isDotEth THEN (IF Len(labels) = 2 THEN "eth-2ld" ELSE "eth-subname")
     ELSE "other-subname"

\* utils/makeLabelNodeAndParent: the first label, its hash and the parent's node
makeLabelNodeAndParent(name) ==
  IF Len(name) < 2 THEN Throw("MalformedNameError", "name has no parent")
  ELSE [kind |-> "ok",
        label |-> Head(name),
        labelhash |-> labelhash(Head(name)),
        parentNode |-> namehash(Tail(name))]

\* utils/wrapper wrappedLabelLengthCheck: TRUE when the label is accepted
wrappedLabelLengthCheck(label) == byteLength(label) <= 255

\* utils/registerHelpers makeRegistrationTuple: the tuple starts with the raw label
makeRegistrationTuple(name) == <<Str(Head(name))>>

(***************************************************************************)
(* transferName.makeFunctionData                                           *)
(***************************************************************************)
\* transferRegistry with the subnode keyed by the name's own node
transferRegistry_OwnNode(wallet, p) ==
  LET registryAddress == getChainContractAddress("ensRegistry")
      lnp == makeLabelNodeAndParent(p.name)
  IN IF Truthy(p.asParent)
     THEN IF lnp.kind = "error" THEN lnp
          ELSE Payload(registryAddress,
                 encodeFunctionData("registrySetSubnodeOwnerSnippet", "setSubnodeOwner",
                   <<namehash(p.name), lnp.labelhash, Addr(p.newOwnerAddress)>>))
     ELSE Payload(registryAddress,
            encodeFunctionData("setOwnerSnippet", "setOwner",
              <<namehash(p.name), Addr(p.newOwnerAddress)>>))

transferRegistry(wallet, p) ==
  LET registryAddress == getChainContractAddress("ensRegistry")
      lnp == makeLabelNodeAndParent(p.name)
  IN IF Truthy(p.asParent)
     THEN IF lnp.kind = "error" THEN lnp
          ELSE Payload(registryAddress,
                 encodeFunctionData("registrySetSubnodeOwnerSnippet", "setSubnodeOwner",
                   <<lnp.parentNode, lnp.labelhash, Addr(p.newOwnerAddress)>>))
     ELSE Payload(registryAddress,
            encodeFunctionData("setOwnerSnippet", "setOwner",
              <<namehash(p.name), Addr(p.newOwnerAddress)>>))

\* transferRegistrar with the token id taken from the name's node hash
transferRegistrar_NodeTokenId(wallet, p) ==
  LET nameType == getNameType(p.name)
      tokenId == BigInt(namehash(p.name))
  IN IF Truthy(p.asParent)
     THEN Throw("AdditionalParameterSpecifiedError", "asParent")
     ELSE IF nameType = "MalformedNameError"
     THEN Throw("MalformedNameError", "getNameType")
     ELSE IF nameType # "eth-2ld"
     THEN Throw("UnsupportedNameTypeError", nameType)
     ELSE Payload(getChainContractAddress("ensBaseRegistrarImplementation"),
            IF Truthy(p.reclaim)
            THEN encodeFunctionData("reclaimSnippet", "reclaim",
                   <<tokenId, Addr(p.newOwnerAddress)>>)
            ELSE encodeFunctionData("erc721SafeTransferFromSnippet", "safeTransferFrom",
                   <<Addr(wallet.account), Addr(p.newOwnerAddress), tokenId>>))

transferRegistrar(wallet, p) ==
  LET nameType == getNameType(p.name)
      labels == p.name
      tokenId == BigInt(labelhash(labels[1]))
  IN IF Truthy(p.asParent)
     THEN Throw("AdditionalParameterSpecifiedError", "asParent")
     ELSE IF nameType = "MalformedNameError"
     THEN Throw("MalformedNameError", "getNameType")
     ELSE IF nameType # "eth-2ld"
     THEN Throw("UnsupportedNameTypeError", nameType)
     ELSE Payload(getChainContractAddress("ensBaseRegistrarImplementation"),
            IF Truthy(p.reclaim)
            THEN encodeFunctionData("reclaimSnippet", "reclaim",
                   <<tokenId, Addr(p.newOwnerAddress)>>)
            ELSE encodeFunctionData("erc721SafeTransferFromSnippet", "safeTransferFrom",
                   <<Addr(wallet.account), Addr(p.newOwnerAddress), tokenId>>))

\* transferNameWrapper with the ERC-1155 id taken from the first label's hash
transferNameWrapper_LabelId(wallet, p) ==
  LET nameWrapperAddress == getChainContractAddress("ensNameWrapper")
      lnp == makeLabelNodeAndParent(p.name)
  IN IF Truthy(p.asParent)
     THEN IF lnp.kind = "error" THEN lnp
          ELSE Payload(nameWrapperAddress,
                 encodeFunctionData("nameWrapperSetSubnodeOwnerSnippet", "setSubnodeOwner",
                   <<lnp.parentNode, Str(lnp.label), Addr(p.newOwnerAddress),
                     Uint(0), Uint(0)>>))
     ELSE Payload(nameWrapperAddress,
            encodeFunctionData("erc1155SafeTransferFromSnippet", "safeTransferFrom",
              <<Addr(wallet.account), Addr(p.newOwnerAddress),
                BigInt(labelhash(p.name[1])), Uint(1), Str("0x")>>))

transferNameWrapper(wallet, p) ==
  LET nameWrapperAddress == getChainContractAddress("ensNameWrapper")
      lnp == makeLabelNodeAndParent(p.name)
  IN IF Truthy(p.asParent)
     THEN IF lnp.kind = "error" THEN lnp
          ELSE Payload(nameWrapperAddress,
                 encodeFunctionData("nameWrapperSetSubnodeOwnerSnippet", "setSubnodeOwner",
                   <<lnp.parentNode, Str(lnp.label), Addr(p.newOwnerAddress),
                     Uint(0), Uint(0)>>))
     ELSE Payload(nameWrapperAddress,
            encodeFunctionData("erc1155SafeTransferFromSnippet", "safeTransferFrom",
              <<Addr(wallet.account), Addr(p.newOwnerAddress),
                BigInt(namehash(p.name)), Uint(1), Str("0x")>>))

\* transferMakeFunctionData without the reclaim guard
transferMakeFunctionData_NoReclaimGuard(wallet, p) ==
  CASE p.contract = "registry"    -> transferRegistry(wallet, p)
    [] p.contract = "registrar"   -> transferRegistrar(wallet, p)
    [] p.contract = "nameWrapper" -> transferNameWrapper(wallet, p)
    [] OTHER -> Throw("InvalidContractTypeError", p.contract)

\* transferMakeFunctionData whose switch has no default and ends in the registry case
transferMakeFunctionData_NoDefault(wallet, p) ==
  IF Truthy(p.reclaim) /\ p.contract # "registrar"
  THEN Throw("AdditionalParameterSpecifiedError", "reclaim")
  ELSE CASE p.contract = "registrar"   -> transferRegistrar(wallet, p)
         [] p.contract = "nameWrapper" -> transferNameWrapper(wallet, p)
         [] OTHER -> transferRegistry(wallet, p)

transferMakeFunctionData(wallet, p) ==
  IF Truthy(p.reclaim) /\ p.contract # "registrar"
  THEN Throw("AdditionalParameterSpecifiedError", "reclaim")
  ELSE CASE p.contract = "registry"    -> transferRegistry(wallet, p)
         [] p.contract = "registrar"   -> transferRegistrar(wallet, p)
         [] p.contract = "nameWrapper" -> transferNameWrapper(wallet, p)
         [] OTHER -> Throw("InvalidContractTypeError", p.contract)

(***************************************************************************)
(* deleteSubname.makeFunctionData                                          *)
(***************************************************************************)
\* deleteRegistry with the subnode record keyed by the name's own node
deleteRegistry_OwnNode(wallet, p) ==
  LET registryAddress == getChainContractAddress("ensRegistry")
      lnp == makeLabelNodeAndParent(p.name)
  IN IF Truthy(p.asOwner)
     THEN Payload(registryAddress,
            encodeFunctionData("registrySetRecordSnippet", "setRecord",
              <<namehash(p.name), EMPTY_ADDRESS, EMPTY_ADDRESS, Uint(0)>>))
     ELSE IF lnp.kind = "error" THEN lnp
     ELSE Payload(registryAddress,
            encodeFunctionData("registrySetSubnodeRecordSnippet", "setSubnodeRecord",
              <<namehash(p.name), lnp.labelhash, EMPTY_ADDRESS, EMPTY_ADDRESS, Uint(0)>>))

deleteRegistry(wallet, p) ==
  LET registryAddress == getChainContractAddress("ensRegistry")
      lnp == makeLabelNodeAndParent(p.name)
  IN IF Truthy(p.asOwner)
     THEN Payload(registryAddress,
            encodeFunctionData("registrySetRecordSnippet", "setRecord",
              <<namehash(p.name), EMPTY_ADDRESS, EMPTY_ADDRESS, Uint(0)>>))
     ELSE IF lnp.kind = "error" THEN lnp
     ELSE Payload(registryAddress,
            encodeFunctionData("registrySetSubnodeRecordSnippet", "setSubnodeRecord",
              <<lnp.parentNode, lnp.labelhash, EMPTY_ADDRESS, EMPTY_ADDRESS, Uint(0)>>))

deleteNameWrapper(wallet, p) ==
  LET nameWrapperAddress == getChainContractAddress("ensNameWrapper")
      lnp == makeLabelNodeAndParent(p.name)
  IN IF Truthy(p.asOwner)
     THEN Payload(nameWrapperAddress,
            encodeFunctionData("setRecordSnippet", "setRecord",
              <<namehash(p.name), EMPTY_ADDRESS, EMPTY_ADDRESS, Uint(0)>>))
     ELSE IF lnp.kind = "error" THEN lnp
     ELSE Payload(nameWrapperAddress,
            encodeFunctionData("nameWrapperSetSubnodeRecordSnippet", "setSubnodeRecord",
              <<lnp.parentNode, Str(lnp.label), EMPTY_ADDRESS, EMPTY_ADDRESS, Uint(0),
                Uint(0), Uint(0)>>))

\* deleteMakeFunctionData that also lets second-level .eth names through
deleteMakeFunctionData_Allows2ld(wallet, p) ==
  LET nameType == getNameType(p.name)
  IN IF nameType = "MalformedNameError"
     THEN Throw("MalformedNameError", "getNameType")
     ELSE IF nameType \notin {"eth-subname", "other-subname", "eth-2ld"}
     THEN Throw("UnsupportedNameTypeError", nameType)
     ELSE CASE p.contract = "registry"    -> deleteRegistry(wallet, p)
            [] p.contract = "nameWrapper" -> deleteNameWrapper(wallet, p)
            [] OTHER -> Throw("InvalidContractTypeError", p.contract)

deleteMakeFunctionData(wallet, p) ==
  LET nameType == getNameType(p.name)
  IN IF nameType = "MalformedNameError"
     THEN Throw("MalformedNameError", "getNameType")
     ELSE IF nameType # "eth-subname" /\ nameType # "other-subname"
     THEN Throw("UnsupportedNameTypeError", nameType)
     ELSE CASE p.contract = "registry"    -> deleteRegistry(wallet, p)
            [] p.contract = "nameWrapper" -> deleteNameWrapper(wallet, p)
            [] OTHER -> Throw("InvalidContractTypeError", p.contract)

(***************************************************************************)
(* registerName.makeFunctionData                                           *)
(***************************************************************************)
registerMakeFunctionData(wallet, p) ==
  LET labels == p.name
  IN IF Len(labels) # 2
     THEN Throw("Error", "Only second level name registration is supported")
     ELSE IF labels[2] # "eth"
     THEN Throw("Error", "Only .eth name registration is supported")
     ELSE IF ~wrappedLabelLengthCheck(labels[1])
     THEN Throw("LabelTooLongError", labels[1])
     ELSE PayloadWithValue(getChainContractAddress("ensEthRegistrarController"),
            encodeFunctionData("registerSnippet", "register",
              makeRegistrationTuple(p.name)),
            p.value)

(***************************************************************************)
(* The calls a caller can make, and the state they leave.                  *)
(*   pc    "ready" before the call, "done" after it                        *)
(*   req   the call: the operation, how it is entered (makeFunctionData    *)
(*         directly, or the wrapper that also submits) and its parameters  *)
(*   data  what makeFunctionData returned or threw                         *)
(*   sent  the arguments of every wallet.sendTransaction call, in order    *)
(***************************************************************************)
NoRequest == [op |-> "none"]

NoData == [kind |-> "none"]

\* the wallet client the caller holds
Wallet == [account |-> WalletAccount]

\* the wallet account alone, the per-call override left out
overriddenAccount_WalletOnly(wallet, txArgs) == wallet.account

\* txArgs.account || wallet.account, through parseAccount
overriddenAccount(wallet, txArgs) ==
  IF txArgs.account # {} THEN CHOOSE a \in txArgs.account : TRUE ELSE wallet.account

\* { ...data, ...txArgs }
writeArgs(payload, txArgs) == [payload |-> payload, account |-> txArgs.account]

\* viem sendTransaction({account = client.account, ...}): the account that sends
sendTransactionAccount(wallet, args) ==
  IF args.account # {} THEN CHOOSE a \in args.account : TRUE ELSE wallet.account

\* Submit that calls wallet.sendTransaction whatever makeFunctionData produced
Submit_Always(d, txArgs) == Append(sent, writeArgs(d, txArgs))

\* wallet.sendTransaction(writeArgs) when makeFunctionData returned, nothing when it threw
Submit(d, txArgs) ==
  IF d.kind = "payload" THEN Append(sent, writeArgs(d, txArgs)) ELSE sent

TransferRequest(via, n, c, r, a, o, acc) ==
  [op |-> "transferName", via |-> via, name |-> n, contract |-> c, reclaim |-> r,
   asParent |-> a, newOwnerAddress |-> o, account |-> acc]

DeleteRequest(via, n, c, a, acc) ==
  [op |-> "deleteSubname", via |-> via, name |-> n, contract |-> c, asOwner |-> a,
   account |-> acc]

RegisterRequest(via, n, x, acc) ==
  [op |-> "registerName", via |-> via, name |-> n, value |-> x, account |-> acc]

Init ==
  /\ pc = "ready"
  /\ req = NoRequest
  /\ data = NoData
  /\ sent = <<>>

\* transferName.makeFunctionData(wallet, parameters), called directly
TransferNameMakeFunctionData ==
  /\ pc = "ready"
  /\ \E n \in NameSet, c \in ContractSet, r \in OptBool, a \in OptBool, o \in AddressSet :
       /\ req' = TransferRequest("makeFunctionData", n, c, r, a, o, {})
       /\ data' = transferMakeFunctionData(Wallet, req')
  /\ pc' = "done"
  /\ UNCHANGED sent

\* transferName(wallet, parameters)
transferName ==
  /\ pc = "ready"
  /\ \E n \in NameSet, c \in ContractSet, r \in OptBool, a \in OptBool, o \in AddressSet,
        acc \in AccountOverrideSet :
       /\ req' = TransferRequest("wrapper", n, c, r, a, o, acc)
       /\ data' = transferMakeFunctionData(
                    [account |-> overriddenAccount(Wallet, req')], req')
       /\ sent' = Submit(data', req')
  /\ pc' = "done"

\* deleteSubname.makeFunctionData(wallet, parameters), called directly
DeleteSubnameMakeFunctionData ==
  /\ pc = "ready"
  /\ \E n \in NameSet, c \in ContractSet, a \in OptBool :
       /\ req' = DeleteRequest("makeFunctionData", n, c, a, {})
       /\ data' = deleteMakeFunctionData(Wallet, req')
  /\ pc' = "done"
  /\ UNCHANGED sent

\* deleteSubname(wallet, parameters)
deleteSubname ==
  /\ pc = "ready"
  /\ \E n \in NameSet, c \in ContractSet, a \in OptBool, acc \in AccountOverrideSet :
       /\ req' = DeleteRequest("wrapper", n, c, a, acc)
       /\ data' = deleteMakeFunctionData(Wallet, req')
       /\ sent' = Submit(data', req')
  /\ pc' = "done"

\* registerName.makeFunctionData(wallet, parameters), called directly
RegisterNameMakeFunctionData ==
  /\ pc = "ready"
  /\ \E n \in NameSet, x \in ValueSet :
       /\ req' = RegisterRequest("makeFunctionData", n, x, {})
       /\ data' = registerMakeFunctionData(Wallet, req')
  /\ pc' = "done"
  /\ UNCHANGED sent

\* registerName(wallet, parameters)
registerName ==
  /\ pc = "ready"
  /\ \E n \in NameSet, x \in ValueSet, acc \in AccountOverrideSet :
       /\ req' = RegisterRequest("wrapper", n, x, acc)
       /\ data' = registerMakeFunctionData(Wallet, req')
       /\ sent' = Submit(data', req')
  /\ pc' = "done"

Next ==
  \/ TransferNameMakeFunctionData
  \/ transferName
  \/ DeleteSubnameMakeFunctionData
  \/ deleteSubname
  \/ RegisterNameMakeFunctionData
  \/ registerName

Spec == Init /\ [][Next]_vars

(***************************************************************************)
(* The permission bitmask (fuses) and its check in setChildFuses.test.ts.  *)
(***************************************************************************)
\* utils/fuses userSettableFuseEnum: the names of the user-settable fuses
FuseNames ==
  {"CANNOT_UNWRAP", "CANNOT_BURN_FUSES", "CANNOT_TRANSFER", "CANNOT_SET_RESOLVER",
   "CANNOT_SET_TTL", "CANNOT_CREATE_SUBDOMAIN", "CANNOT_APPROVE",
   "PARENT_CANNOT_CONTROL", "CAN_EXTEND_EXPIRY"}

\* userSettableFuseEnum[fuse]: the bit value of a named fuse
userSettableFuseEnum(fuse) ==
  CASE fuse = "CANNOT_UNWRAP"           -> 1
    [] fuse = "CANNOT_BURN_FUSES"       -> 2
    [] fuse = "CANNOT_TRANSFER"         -> 4
    [] fuse = "CANNOT_SET_RESOLVER"     -> 8
    [] fuse = "CANNOT_SET_TTL"          -> 16
    [] fuse = "CANNOT_CREATE_SUBDOMAIN" -> 32
    [] fuse = "CANNOT_APPROVE"          -> 64
    [] fuse = "PARENT_CANNOT_CONTROL"   -> 65536
    [] fuse = "CAN_EXTEND_EXPIRY"       -> 262144

\* a & b on non-negative numbers below 2^31
RECURSIVE BitAnd(_, _)
BitAnd(a, b) ==
  IF a = 0 \/ b = 0 THEN 0
  ELSE (a % 2) * (b % 2) + 2 * BitAnd(a \div 2, b \div 2)

\* a | b on non-negative numbers below 2^31
RECURSIVE BitOr(_, _)
BitOr(a, b) ==
  IF a = 0 THEN b
  ELSE IF b = 0 THEN a
  ELSE (IF a % 2 = 1 \/ b % 2 = 1 THEN 1 ELSE 0) + 2 * BitOr(a \div 2, b \div 2)

\* FuseCodec.encode: the OR of the bit values of the named fuses
RECURSIVE encodeFuses(_)
encodeFuses(named) ==
  IF named = {} THEN 0
  ELSE LET fuse == CHOOSE f \in named : TRUE
       IN BitOr(userSettableFuseEnum(fuse), encodeFuses(named \ {fuse}))

\* fuseActive with the comparison >= 0 in place of > 0
fuseActive_NotNegative(fuses, fuse) == BitAnd(fuses, userSettableFuseEnum(fuse)) >= 0

\* checkFuses: const active = (fuses & userSettableFuseEnum[fuse]) > 0
fuseActive(fuses, fuse) == BitAnd(fuses, userSettableFuseEnum(fuse)) > 0

\* the fuses checkFuses finds active in a mask
activeFuses(fuses) == {fuse \in FuseNames : fuseActive(fuses, fuse)}

\* checkFuses(fuses, expected): the fuses it throws for; none when it passes
checkFuses(fuses, expected) ==
  {fuse \in FuseNames :
     \/ fuse \in expected /\ ~fuseActive(fuses, fuse)
     \/ fuse \notin expected /\ fuseActive(fuses, fuse)}

FuseResult(fuses, expected) ==
  [kind |-> "fuses", active |-> activeFuses(fuses), thrown |-> checkFuses(fuses, expected)]

\* the expected lists a mask is checked against: the names it was composed
\* from, and every list that differs from them in one name
ExpectedLists(named) ==
  {named} \cup {(named \ {fuse}) \cup ({fuse} \ named) : fuse \in FuseNames}

\* a mask composed from a set of named fuses, checked against an expected list
CheckFuses ==
  /\ pc = "ready"
  /\ \E named \in SUBSET FuseNames :
     \E expected \in ExpectedLists(named) :
       /\ req' = [op |-> "checkFuses", named |-> named, fuses |-> encodeFuses(named),
                  expected |-> expected]
       /\ data' = FuseResult(req'.fuses, expected)
  /\ pc' = "done"
  /\ UNCHANGED sent

\* the test's mask, written as the integer 65537 + 64, and its expected list
SetChildFusesTest ==
  /\ pc = "ready"
  /\ req' = [op |-> "setChildFuses.test", fuses |-> 65537 + 64,
             expected |-> {"CANNOT_UNWRAP", "PARENT_CANNOT_CONTROL", "CANNOT_APPROVE"}]
  /\ data' = FuseResult(req'.fuses, req'.expected)
  /\ pc' = "done"
  /\ UNCHANGED sent

FuseNext ==
  \/ CheckFuses
  \/ SetChildFusesTest

FuseSpec == Init /\ [][FuseNext]_vars

(***************************************************************************)
(* Properties.  Each is read in the state a call leaves (pc = "done").     *)
(***************************************************************************)
Returned(op) == pc = "done" /\ req.op = op

\* the account of the wallet that makeFunctionData was handed
HolderAccount ==
  IF req.via = "wrapper" THEN overriddenAccount(Wallet, req) ELSE WalletAccount

Failed(e) == data.kind = "error" /\ data.error = e

NothingSubmitted == sent = <<>>

WellFormed(name) == \A i \in 1..Len(name) : name[i] # ""

\* second-level name under the primary suffix, read off the labels
IsEth2ld(name) == WellFormed(name) /\ Len(name) = 2 /\ name[2] = "eth"

\* a subname: under the primary suffix with three labels or more, or under a
\* foreign suffix with two labels or more
IsSubname(name) ==
  /\ WellFormed(name)
  /\ \/ name[Len(name)] = "eth" /\ Len(name) > 2
     \/ name[Len(name)] # "eth" /\ Len(name) > 1

\* C1: transferName.makeFunctionData throws AdditionalParameterSpecifiedError and
\* returns no payload when reclaim is set with contract registry or nameWrapper,
\* and when asParent is set with contract registrar (reclaim set or not).
C1_IllegalFlagsRejected ==
  Returned("transferName") =>
    /\ (Truthy(req.reclaim) /\ req.contract \in {"registry", "nameWrapper"})
         => Failed("AdditionalParameterSpecifiedError") /\ NothingSubmitted
    /\ (Truthy(req.asParent) /\ req.contract = "registrar")
         => Failed("AdditionalParameterSpecifiedError") /\ NothingSubmitted

C1_Witness ==
  /\ Returned("transferName")
  /\ req.contract = "registrar" /\ Truthy(req.asParent) /\ Truthy(req.reclaim)
  /\ Failed("AdditionalParameterSpecifiedError")

\* C2: transfer on the registrar without asParent: a well-formed name that is not
\* a second-level name under the primary suffix fails with
\* UnsupportedNameTypeError (a malformed one with that or MalformedNameError);
\* a second-level name yields a payload to the base registrar whose token id is
\* the integer value of the first label's hash, calling reclaim(tokenId, newOwner)
\* when reclaim is set and safeTransferFrom(holder, newOwner, tokenId) otherwise.
C2_RegistrarTransfer ==
  (Returned("transferName") /\ req.contract = "registrar" /\ ~Truthy(req.asParent)) =>
    LET tokenId == BigInt(labelhash(req.name[1]))
        newOwner == Addr(req.newOwnerAddress)
    IN IF IsEth2ld(req.name)
       THEN /\ data.kind = "payload"
            /\ data.to = Addr("ensBaseRegistrarImplementation")
            /\ IF Truthy(req.reclaim)
               THEN /\ data.data.functionName = "reclaim"
                    /\ data.data.args = <<tokenId, newOwner>>
               ELSE /\ data.data.functionName = "safeTransferFrom"
                    /\ data.data.args = <<Addr(HolderAccount), newOwner, tokenId>>
       ELSE IF WellFormed(req.name)
       THEN Failed("UnsupportedNameTypeError")
       ELSE Failed("UnsupportedNameTypeError") \/ Failed("MalformedNameError")

C2_Witness ==
  /\ Returned("transferName") /\ req.contract = "registrar"
  /\ req.name = <<"sub", "eth">> /\ Truthy(req.reclaim)
  /\ data.kind = "payload" /\ data.data.functionName = "reclaim"

\* C3: transfer on the name wrapper targets the name-wrapper address; with
\* asParent it is setSubnodeOwner(parent node, raw label, newOwner, 0, 0) for a
\* name that has a parent, and without asParent it is, for every name, the
\* ERC-1155 safeTransferFrom of id = integer value of namehash(name), amount 1.
C3_NameWrapperTransfer ==
  (Returned("transferName") /\ req.contract = "nameWrapper" /\ ~Truthy(req.reclaim)) =>
    LET newOwner == Addr(req.newOwnerAddress)
    IN IF Truthy(req.asParent)
       THEN Len(req.name) >= 2 =>
              /\ data.kind = "payload"
              /\ data.to = Addr("ensNameWrapper")
              /\ data.data.functionName = "setSubnodeOwner"
              /\ data.data.args = <<namehash(Tail(req.name)), Str(req.name[1]), newOwner,
                                    Uint(0), Uint(0)>>
       ELSE /\ data.kind = "payload"
            /\ data.to = Addr("ensNameWrapper")
            /\ data.data.functionName = "safeTransferFrom"
            /\ data.data.args = <<Addr(HolderAccount), newOwner,
                                  BigInt(namehash(req.name)), Uint(1), Str("0x")>>

C3_Witness ==
  /\ Returned("transferName") /\ req.contract = "nameWrapper"
  /\ req.name = <<"sub", "eth">> /\ ~Truthy(req.asParent)
  /\ data.kind = "payload" /\ data.data.functionName = "safeTransferFrom"
  /\ data.data.args[4] = Uint(1)

\* C4: transfer on the registry without reclaim targets the registry address;
\* with asParent it is setSubnodeOwner(namehash(name minus its first label),
\* labelhash(first label), newOwner) for a name of two labels or more, and
\* without asParent it is setOwner(namehash(name), newOwner).
C4_RegistryTransfer ==
  (Returned("transferName") /\ req.contract = "registry" /\ ~Truthy(req.reclaim)) =>
    LET newOwner == Addr(req.newOwnerAddress)
    IN IF Truthy(req.asParent)
       THEN Len(req.name) >= 2 =>
              /\ data.kind = "payload"
              /\ data.to = Addr("ensRegistry")
              /\ data.data.functionName = "setSubnodeOwner"
              /\ data.data.args = <<namehash(Tail(req.name)), labelhash(req.name[1]),
                                    newOwner>>
       ELSE /\ data.kind = "payload"
            /\ data.to = Addr("ensRegistry")
            /\ data.data.functionName = "setOwner"
            /\ data.data.args = <<namehash(req.name), newOwner>>

C4_Witness ==
  /\ Returned("transferName") /\ req.contract = "registry"
  /\ req.name = <<"sub", "com", "eth">> /\ Truthy(req.asParent)
  /\ data.kind = "payload" /\ data.data.functionName = "setSubnodeOwner"
  /\ data.data.args[1] = namehash(<<"com", "eth">>)

\* C5: deleteSubname.makeFunctionData returns no payload for a name that is not a
\* subname, whatever contract and asOwner are: a well-formed name classified
\* otherwise fails with UnsupportedNameTypeError (a malformed one with that or
\* MalformedNameError).
C5_DeleteRejectsNonSubname ==
  (Returned("deleteSubname") /\ ~IsSubname(req.name)) =>
    /\ NothingSubmitted
    /\ IF WellFormed(req.name)
       THEN Failed("UnsupportedNameTypeError")
       ELSE Failed("UnsupportedNameTypeError") \/ Failed("MalformedNameError")

C5_Witness ==
  /\ Returned("deleteSubname")
  /\ req.name = <<"sub", "eth">> /\ req.contract = "resolver" /\ Truthy(req.asOwner)
  /\ Failed("UnsupportedNameTypeError")

\* C6: for a subname the delete payload is chosen by (contract, asOwner):
\* registry/asOwner setRecord(namehash(name), 0, 0, 0); registry otherwise
\* setSubnodeRecord(namehash(parent), labelhash(first label), 0, 0, 0), both to the
\* registry; nameWrapper/asOwner setRecord(namehash(name), 0, 0, 0); nameWrapper
\* otherwise setSubnodeRecord(namehash(parent), raw label, 0, 0, 0, 0, 0), both to
\* the name wrapper.
C6_DeletePayload ==
  (Returned("deleteSubname") /\ IsSubname(req.name)
     /\ req.contract \in {"registry", "nameWrapper"}) =>
    LET zero == Uint(0)
        node == namehash(req.name)
        parentNode == namehash(Tail(req.name))
    IN /\ data.kind = "payload"
       /\ data.to = Addr(IF req.contract = "registry" THEN "ensRegistry"
                         ELSE "ensNameWrapper")
       /\ IF Truthy(req.asOwner)
          THEN /\ data.data.functionName = "setRecord"
               /\ data.data.args = <<node, EMPTY_ADDRESS, EMPTY_ADDRESS, zero>>
          ELSE /\ data.data.functionName = "setSubnodeRecord"
               /\ IF req.contract = "registry"
                  THEN data.data.args = <<parentNode, labelhash(req.name[1]),
                                          EMPTY_ADDRESS, EMPTY_ADDRESS, zero>>
                  ELSE data.data.args = <<parentNode, Str(req.name[1]),
                                          EMPTY_ADDRESS, EMPTY_ADDRESS, zero, zero, zero>>

C6_Witness ==
  /\ Returned("deleteSubname")
  /\ req.name = <<"sub", "com", "eth">> /\ req.contract = "registry"
  /\ ~Truthy(req.asOwner)
  /\ data.kind = "payload" /\ data.data.functionName = "setSubnodeRecord"
  /\ data.data.args[1] = namehash(<<"com", "eth">>)
  /\ data.data.args[2] = labelhash("sub")

\* the contract variants an operation recognises
RecognisedContracts(op) ==
  IF op = "transferName" THEN {"registry", "registrar", "nameWrapper"}
  ELSE {"registry", "nameWrapper"}

UnrecognisedContract ==
  /\ pc = "done" /\ req.op \in {"transferName", "deleteSubname"}
  /\ req.contract \notin RecognisedContracts(req.op)

\* C7 as claimed: in delete and transfer an unrecognised contract value always
\* results in InvalidContractTypeError, whatever the name and the flags are.
C7_AlwaysInvalidContractType ==
  UnrecognisedContract => Failed("InvalidContractTypeError")

\* C7 as amended: an unrecognised contract value never yields a payload; the
\* error is InvalidContractTypeError unless an earlier precondition fails first:
\* reclaim set on transfer gives AdditionalParameterSpecifiedError, and a name
\* that is not a subname on delete gives the name-type error.
C7_UnrecognisedContractFails ==
  UnrecognisedContract =>
    /\ data.kind = "error" /\ NothingSubmitted
    /\ IF req.op = "transferName"
       THEN IF Truthy(req.reclaim) THEN Failed("AdditionalParameterSpecifiedError")
            ELSE Failed("InvalidContractTypeError")
       ELSE IF IsSubname(req.name) THEN Failed("InvalidContractTypeError")
            ELSE Failed("UnsupportedNameTypeError") \/ Failed("MalformedNameError")

C7_Witness ==
  /\ UnrecognisedContract /\ req.op = "transferName" /\ Truthy(req.reclaim)
  /\ Failed("AdditionalParameterSpecifiedError")

\* C8: for every name that is malformed or classifies as unsupported, every
\* operation fails with UnsupportedNameTypeError or MalformedNameError and
\* returns no payload.
C8_UnsupportedNameAlwaysFails ==
  (pc = "done" /\ (~WellFormed(req.name) \/ getNameType(req.name) = "unsupported")) =>
    Failed("UnsupportedNameTypeError") \/ Failed("MalformedNameError")

\* a payload for the name wrapper (or the registrar controller, which wraps the
\* name it registers) that carries a raw label
StoresRawLabel ==
  /\ pc = "done" /\ data.kind = "payload"
  /\ \/ /\ data.to = Addr("ensNameWrapper")
        /\ data.data.functionName \in {"setSubnodeOwner", "setSubnodeRecord"}
     \/ data.data.functionName = "register"

RawLabel == IF data.data.functionName = "register" THEN data.data.args[1].string
            ELSE data.data.args[2].string

\* C9: no payload that hands a raw label to the name wrapper is produced for a
\* label longer than 255 bytes.
C9_RawLabelLengthChecked ==
  StoresRawLabel => byteLength(RawLabel) <= 255

\* C10: registerName.makeFunctionData returns a payload only for a second-level
\* name under the primary suffix (two non-empty labels, the last "eth"); every
\* other name is rejected, and a payload targets the registrar controller and
\* carries the caller's value.
C10_RegisterOnlyEth2ld ==
  Returned("registerName") =>
    IF IsEth2ld(req.name)
    THEN data.kind = "payload" =>
           /\ data.to = Addr("ensEthRegistrarController")
           /\ data.value = req.value
    ELSE data.kind = "error" /\ NothingSubmitted

\* the three operations that have a submitting wrapper
IsOperation == req.op \in {"transferName", "deleteSubname", "registerName"}

\* C11: a wrapper calls wallet.sendTransaction at most once per call, and only
\* with the payload makeFunctionData returned; when makeFunctionData throws, and
\* in a direct makeFunctionData call, nothing is submitted.
C11_SubmitOnlyAfterPayload ==
  /\ pc = "ready" => sent = <<>>
  /\ (pc = "done" /\ IsOperation) =>
       /\ Len(sent) <= 1
       /\ IF req.via = "wrapper" /\ data.kind = "payload"
          THEN Len(sent) = 1 /\ sent[1].payload = data
          ELSE sent = <<>>

C11_Witness ==
  /\ Returned("deleteSubname") /\ req.via = "wrapper"
  /\ data.kind = "payload" /\ Len(sent) = 1 /\ sent[1].payload = data

\* C13: in transferName the from argument of every safeTransferFrom payload is
\* the address of the account that sends the transaction: the per-call account
\* override when there is one, the wallet's own account otherwise.
C13_FromIsSender ==
  (Returned("transferName") /\ req.via = "wrapper" /\ data.kind = "payload"
     /\ data.data.functionName = "safeTransferFrom") =>
    /\ Len(sent) = 1
    /\ data.data.args[1] = Addr(sendTransactionAccount(Wallet, sent[1]))
    /\ sent[1].payload.data.args[1] = data.data.args[1]
    /\ data.data.args[1] =
         Addr(IF req.account = {} THEN WalletAccount ELSE CHOOSE a \in req.account : TRUE)

C13_Witness ==
  /\ Returned("transferName") /\ req.via = "wrapper"
  /\ req.contract = "registrar" /\ req.account = {"0xOverride"}
  /\ data.kind = "payload" /\ data.data.functionName = "safeTransferFrom"
  /\ data.data.args[1] = Addr("0xOverride")
  /\ Len(sent) = 1 /\ sent[1].account = {"0xOverride"}

\* C12: decoding the OR of the bit values of a set of named fuses reports
\* exactly that set, so checkFuses passes for the expected list that equals the
\* set and for no other; the mask 65537 + 64 reads back as CANNOT_UNWRAP,
\* PARENT_CANNOT_CONTROL and CANNOT_APPROVE and no other user-settable fuse.
C12_FuseRoundTrip ==
  /\ (pc = "done" /\ req.op = "checkFuses") =>
       /\ data.active = req.named
       /\ (data.thrown = {}) <=> (req.expected = req.named)
  /\ (pc = "done" /\ req.op = "setChildFuses.test") =>
       /\ data.active = {"CANNOT_UNWRAP", "PARENT_CANNOT_CONTROL", "CANNOT_APPROVE"}
       /\ data.thrown = {}

C12_Witness ==
  /\ pc = "done" /\ req.op = "checkFuses"
  /\ req.named = {"CANNOT_UNWRAP", "PARENT_CANNOT_CONTROL", "CANNOT_APPROVE"}
  /\ req.fuses = 65601
  /\ data.active = req.named /\ data.thrown = {}

====
